---------------------------- MODULE Spec2Model ----------------------------
(***************************************************************************)
(* Model of libavfilter/vf_tmblock.c, the libavfilter adapter for          *)
(* libtmblock: init / config_output / process_frame / uninit and the       *)
(* picture bridge copy_AVFrame_to_TM_Picture.                              *)
(*                                                                         *)
(* A frame is identified by its index in `frames`; the index also stands   *)
(* for the frame's plane pointer data[0] (two descriptors alias the same   *)
(* buffer iff they carry the same index).  0 is the NULL pointer.          *)
(***************************************************************************)
EXTENDS Integers, Sequences, FiniteSets, TLC

VARIABLES
    pc,           \* lifecycle of the filter instance as the host sees it
    func_type,    \* TMBlockContext.func_type (option "func")
    offset_x,     \* TMBlockContext.offset_x  (option "x")
    offset_y,     \* TMBlockContext.offset_y  (option "y")
    func,         \* TMBlockContext.func
    on_event,     \* TMBlockContext.fs.on_event
    fs_configured,\* ff_framesync_configure(&tmblock->fs) has been called
    fs_cfg_ret,   \* what ff_framesync_configure returned (0 before the call)
    init_ret,     \* value returned by init (0 before init ran)
    links,        \* w/h of inputs[0], inputs[1] and outputs[0]
    frames,       \* every frame ever created, with its release counters
    fs_queue,     \* synchronizer: pending frames per stream
    fs_frame,     \* synchronizer: current frame per stream (fs->in[i].frame)
    fs_eof,       \* synchronizer has signalled end of stream
    queue_input,  \* TMBlockContext.queue_input
    queue_logo,   \* TMBlockContext.queue_logo
    tm,           \* TMBlockContext.input / .logo / .output descriptors
    downstream,   \* frames handed to ff_filter_frame, in order
    last,         \* what the latest process_frame invocation did
    crashed,      \* the process aborted (outcome of undefined behaviour)
    uninit_count, \* number of uninit calls so far
    snap,         \* state left by the first uninit call
    b_frame,      \* picture bridge harness: the frame converted
    b_pic,        \* picture bridge harness: the descriptor produced
    b_done        \* picture bridge harness: conversion has run

vars == <<pc, func_type, offset_x, offset_y, func, on_event, fs_configured,
          fs_cfg_ret, init_ret, links, frames, fs_queue, fs_frame, fs_eof, queue_input,
          queue_logo, tm, downstream, last, crashed, uninit_count, snap,
          b_frame, b_pic, b_done>>

mainvars == <<pc, func_type, offset_x, offset_y, func, on_event,
              fs_configured, fs_cfg_ret, init_ret, links, frames, fs_queue, fs_frame,
              fs_eof, queue_input, queue_logo, tm, downstream, last, crashed,
              uninit_count, snap>>

bridgevars == <<b_frame, b_pic, b_done>>

---------------------------------------------------------------------------
(* Bounds of the model *)

\* total number of frames (pushed by the sources or allocated) in one run
MaxFrames == 5

\* number of times the host may call uninit in one run
MaxUninit == 2

\* picture bridge harness: largest frame width / height
MaxBridgeDim == 3

---------------------------------------------------------------------------
(* Program constants *)

\* TMFunctionType
FUNC_EMBED == 0
FUNC_PRE == 1
FUNC_POST == 2
NB_FUNC == 3

\* enum AVPixelFormat (libavutil/pixfmt.h).  Only AV_PIX_FMT_RGB24 being
\* non-zero and the four values being distinct is used.
AV_PIX_FMT_NONE == -1
AV_PIX_FMT_YUV420P == 0
AV_PIX_FMT_RGB24 == 2
AV_PIX_FMT_RGBA == 26

\* TM_Layout tags of tmblock.h and the "no layout" value of the bridge
TM_RGBA == "TM_RGBA"
TM_RGB == "TM_RGB"
TM_NONE == "-1"

\* AVERROR(ENOMEM), AVERROR(EINVAL)
ENOMEM == -12
EINVAL == -22

\* the `in` argument of the two ff_framesync_get_frame calls of process_frame
InputStreamArg == 0
LogoStreamArg == 0

\* value returned by init for an unknown func_type
InitDefaultRet == 1

Streams == {0, 1}

\* option values the model draws from
FuncTypes == FUNC_EMBED .. NB_FUNC
OffsetPairs == {<<0, 0>>, <<1, 1>>, <<-1, 2>>}
LinkGeometries ==
    {[in_w |-> 4, in_h |-> 4, logo_w |-> 2, logo_h |-> 2, out_w |-> 0, out_h |-> 0],
     [in_w |-> 2, in_h |-> 4, logo_w |-> 4, logo_h |-> 2, out_w |-> 0, out_h |-> 0]}

\* status values of the opaque callees
OpRets == {0, 1}
FwdRets == {0, ENOMEM}
GetRets == {0, ENOMEM}
CfgRets == {0, EINVAL}

NullPic == [height |-> 0, width |-> 0, linesize |-> 0, mode |-> TM_NONE, ptr |-> 0]

NoEvent ==
    [handled |-> FALSE, in0 |-> 0, in1 |-> 0, input_buf |-> 0, logo_buf |-> 0,
     output_buf |-> 0, got |-> FALSE, alloc |-> FALSE, drawn |-> FALSE,
     fwd |-> FALSE, out |-> FALSE, ret |-> 0, ncalls |-> 0, call_func |-> "NULL",
     call_x |-> 0, call_y |-> 0, call_input |-> NullPic, call_logo |-> NullPic,
     call_output |-> NullPic]

---------------------------------------------------------------------------
(* Frames *)

\* pixel layout negotiated for each pad by query_formats:
\* io_fmts on inputs[0] and outputs[0], logo_fmts on inputs[1]
query_formats(pad) ==
    IF pad = 1 THEN AV_PIX_FMT_RGBA ELSE AV_PIX_FMT_RGB24

\* bytes per pixel of the two negotiated packed layouts
BytesPerPixel(format) ==
    IF format = AV_PIX_FMT_RGBA THEN 4 ELSE 3

\* presentation timestamp of the n-th frame a source pushes; the logo
\* source runs on a time base of its own
SourcePts(stream, n) ==
    IF stream = 0 THEN n ELSE 2 * n + 1

\* sample aspect ratio carried by the frames of each source
SourceSar(stream) ==
    IF stream = 0 THEN "1:1" ELSE "4:3"

\* a frame as the host creates it: `stream` is 0 / 1 for the two sources and
\* 2 for a buffer allocated on the output link.  rel_pf, rel_fs, rel_q count
\* the releases done by process_frame, by the synchronizer and by the
\* queue discard of uninit; drawn tells that the frame was passed to the
\* operation as its output, and op_status is the status it returned.
NewFrame(stream, w, h, pts, sar) ==
    [stream |-> stream, format |-> query_formats(stream), width |-> w,
     height |-> h, linesize |-> w * BytesPerPixel(query_formats(stream)),
     pts |-> pts, sar |-> sar, drawn |-> FALSE, op_status |-> 0,
     rel_pf |-> 0, rel_fs |-> 0, rel_q |-> 0]

\* av_frame_free(&p) by the party `who`; NULL is ignored
av_frame_free(fr, id, who) ==
    IF id = 0 THEN fr ELSE [fr EXCEPT ![id][who] = @ + 1]

Released(f) == f.rel_pf + f.rel_fs + f.rel_q

FrameIds == 1 .. Len(frames)

\* number of frames the source `stream` has pushed so far
Pushed(stream) ==
    Cardinality({i \in FrameIds : frames[i].stream = stream})

RECURSIVE DiscardAll(_, _)
\* ff_bufqueue_discard_all: release every buffer of the queue
DiscardAll(fr, q) ==
    IF q = <<>> THEN fr
    ELSE DiscardAll(av_frame_free(fr, Head(q), "rel_q"), Tail(q))

---------------------------------------------------------------------------
(* Picture bridge *)

\* picture->mode = frame->format == AV_PIX_FMT_RGBA ? TM_RGBA
\*                 : AV_PIX_FMT_RGB24 ? TM_RGB : -1;
\* the second condition is the constant AV_PIX_FMT_RGB24 itself
BridgeMode(format) ==
    IF format = AV_PIX_FMT_RGBA THEN TM_RGBA
    ELSE IF AV_PIX_FMT_RGB24 # 0 THEN TM_RGB
    ELSE TM_NONE

\* copy_AVFrame_to_TM_Picture: the descriptor written for `frame`, whose
\* plane pointer is `ptr`; `failed` is the assert(picture->mode != -1) firing
copy_AVFrame_to_TM_Picture(frame, ptr) ==
    [pic |-> [height |-> frame.height, width |-> frame.width,
              linesize |-> frame.linesize, mode |-> BridgeMode(frame.format),
              ptr |-> ptr],
     failed |-> BridgeMode(frame.format) = TM_NONE]

---------------------------------------------------------------------------
(* Initialization *)

\* init binding the post-processing operation for "pre" and vice versa
init_bind_pre_post_swapped(ft) ==
    IF ft = FUNC_EMBED THEN [bound |-> TRUE, func |-> "TM_embed"]
    ELSE IF ft = FUNC_POST THEN [bound |-> TRUE, func |-> "TM_pre"]
    ELSE IF ft = FUNC_PRE THEN [bound |-> TRUE, func |-> "TM_post"]
    ELSE [bound |-> FALSE, func |-> "NULL"]

\* init, lines 138-150: the operation bound for a selector, and whether the
\* switch left through `default: return 1`
init_bind(ft) ==
    IF ft = FUNC_EMBED THEN [bound |-> TRUE, func |-> "TM_embed"]
    ELSE IF ft = FUNC_POST THEN [bound |-> TRUE, func |-> "TM_post"]
    ELSE IF ft = FUNC_PRE THEN [bound |-> TRUE, func |-> "TM_pre"]
    ELSE [bound |-> FALSE, func |-> "NULL"]

\* the host's test of a callback's result: a negative AVERROR is a failure
HostFailed(ret) == ret < 0

\* init as called by the host; cfg is the result of ff_framesync_configure
init ==
    /\ pc = "Idle"
    /\ ~crashed
    /\ \E cfg \in CfgRets :
          LET b == init_bind(func_type)
              ret == IF b.bound THEN cfg ELSE InitDefaultRet
          IN  /\ func' = b.func
              /\ on_event' = IF b.bound THEN "process_frame" ELSE on_event
              /\ fs_configured' = b.bound
              /\ fs_cfg_ret' = IF b.bound THEN cfg ELSE fs_cfg_ret
              /\ init_ret' = ret
              /\ pc' = IF HostFailed(ret) THEN "Terminated" ELSE "Inited"
    /\ UNCHANGED <<func_type, offset_x, offset_y, links, frames, fs_queue,
                   fs_frame, fs_eof, queue_input, queue_logo, tm, downstream,
                   last, crashed, uninit_count, snap, bridgevars>>

\* config_output taking the geometry of inputs[1] instead of inputs[0]
config_output_geometry_of_logo(l) ==
    [w |-> l.logo_w, h |-> l.logo_h]

\* config_output: geometry of the output link
config_output_geometry(l) ==
    [w |-> l.in_w, h |-> l.in_h]

\* config_output as called by the host once the inputs are configured
config_output ==
    /\ pc = "Inited"
    /\ ~crashed
    /\ LET g == config_output_geometry(links)
       IN  links' = [links EXCEPT !.out_w = g.w, !.out_h = g.h]
    /\ pc' = "Ready"
    /\ UNCHANGED <<func_type, offset_x, offset_y, func, on_event,
                   fs_configured, fs_cfg_ret, init_ret, frames, fs_queue, fs_frame,
                   fs_eof, queue_input, queue_logo, tm, downstream, last,
                   crashed, uninit_count, snap, bridgevars>>

---------------------------------------------------------------------------
(* Synchronizer (framesync.h), as far as process_frame depends on it *)

\* the synchronizer moves to the next aligned pair: it releases the frames
\* it still holds and takes the head of each pending queue as current
framesync_advance(fr, cur, q) ==
    [frames |-> av_frame_free(av_frame_free(fr, cur[0], "rel_fs"), cur[1], "rel_fs"),
     fs_frame |-> [i \in Streams |-> Head(q[i])],
     fs_queue |-> [i \in Streams |-> Tail(q[i])]]

\* a synchronizer that goes on producing events after end of stream
framesync_event_ready_after_eof(q, eof) ==
    /\ q[0] # <<>>
    /\ q[1] # <<>>

\* nextEvent yields an aligned pair: both pending queues hold a frame and
\* end of stream has not been signalled
framesync_event_ready(q, eof) ==
    /\ ~eof
    /\ q[0] # <<>>
    /\ q[1] # <<>>

\* ff_framesync_get_frame(fs, in, &frame, 0): with get = 0 the synchronizer
\* keeps the frame; the caller gets a pointer to it, not a reference
ff_framesync_get_frame(cur, in, ret) ==
    IF ret < 0 THEN 0 ELSE cur[in]

\* frames the synchronizer holds: pending in a queue or current
HeldBySync(id) ==
    \E i \in Streams :
        \/ fs_frame[i] = id
        \/ \E k \in 1 .. Len(fs_queue[i]) : fs_queue[i][k] = id

\* an upstream source pushes one frame of its link's geometry and layout
push(i) ==
    /\ pc = "Ready"
    /\ ~crashed
    /\ Len(frames) < MaxFrames
    /\ frames' = Append(frames,
                   NewFrame(i, IF i = 0 THEN links.in_w ELSE links.logo_w,
                            IF i = 0 THEN links.in_h ELSE links.logo_h,
                            SourcePts(i, Pushed(i)), SourceSar(i)))
    /\ fs_queue' = [fs_queue EXCEPT ![i] = Append(@, Len(frames) + 1)]
    /\ UNCHANGED <<pc, func_type, offset_x, offset_y, func, on_event,
                   fs_configured, fs_cfg_ret, init_ret, links, fs_frame, fs_eof,
                   queue_input, queue_logo, tm, downstream, last, crashed,
                   uninit_count, snap, bridgevars>>

\* a source is exhausted: the synchronizer signals end of stream
end_of_stream ==
    /\ pc = "Ready"
    /\ ~crashed
    /\ ~fs_eof
    /\ fs_eof' = TRUE
    /\ UNCHANGED <<pc, func_type, offset_x, offset_y, func, on_event,
                   fs_configured, fs_cfg_ret, init_ret, links, frames, fs_queue, fs_frame,
                   queue_input, queue_logo, tm, downstream, last, crashed,
                   uninit_count, snap, bridgevars>>

---------------------------------------------------------------------------
(* process_frame *)

\* process_frame leaving ret at 0 when the output buffer cannot be allocated
process_frame_path_hiding_alloc_failure(g0, g1, allocOK, opRet, fwdRet) ==
    IF g0 < 0 THEN
        [got |-> FALSE, alloc |-> FALSE, drawn |-> FALSE, fwd |-> FALSE,
         out |-> FALSE, ret |-> g0]
    ELSE IF g1 < 0 THEN
        [got |-> FALSE, alloc |-> FALSE, drawn |-> FALSE, fwd |-> FALSE,
         out |-> FALSE, ret |-> g1]
    ELSE IF ~allocOK THEN
        [got |-> TRUE, alloc |-> FALSE, drawn |-> FALSE, fwd |-> FALSE,
         out |-> TRUE, ret |-> 0]
    ELSE IF opRet # 0 THEN
        [got |-> TRUE, alloc |-> TRUE, drawn |-> TRUE, fwd |-> FALSE,
         out |-> TRUE, ret |-> opRet]
    ELSE
        [got |-> TRUE, alloc |-> TRUE, drawn |-> TRUE, fwd |-> TRUE,
         out |-> TRUE, ret |-> fwdRet]

\* process_frame forwarding the output whatever status the operation returned
process_frame_path_ignoring_status(g0, g1, allocOK, opRet, fwdRet) ==
    IF g0 < 0 THEN
        [got |-> FALSE, alloc |-> FALSE, drawn |-> FALSE, fwd |-> FALSE,
         out |-> FALSE, ret |-> g0]
    ELSE IF g1 < 0 THEN
        [got |-> FALSE, alloc |-> FALSE, drawn |-> FALSE, fwd |-> FALSE,
         out |-> FALSE, ret |-> g1]
    ELSE IF ~allocOK THEN
        [got |-> TRUE, alloc |-> FALSE, drawn |-> FALSE, fwd |-> FALSE,
         out |-> TRUE, ret |-> ENOMEM]
    ELSE
        [got |-> TRUE, alloc |-> TRUE, drawn |-> TRUE, fwd |-> TRUE,
         out |-> TRUE, ret |-> fwdRet]

\* control flow of process_frame for the results g0, g1 of the two
\* ff_framesync_get_frame calls, the outcome of ff_get_video_buffer, and the
\* statuses of the operation and of ff_filter_frame:
\*   got   both frames were obtained (line 112 passed)
\*   alloc an output buffer was allocated
\*   drawn draw_frame ran
\*   fwd   the output was passed to ff_filter_frame
\*   out   the label `out` was reached
\*   ret   the value returned
process_frame_path(g0, g1, allocOK, opRet, fwdRet) ==
    IF g0 < 0 THEN
        [got |-> FALSE, alloc |-> FALSE, drawn |-> FALSE, fwd |-> FALSE,
         out |-> FALSE, ret |-> g0]
    ELSE IF g1 < 0 THEN
        [got |-> FALSE, alloc |-> FALSE, drawn |-> FALSE, fwd |-> FALSE,
         out |-> FALSE, ret |-> g1]
    ELSE IF ~allocOK THEN
        [got |-> TRUE, alloc |-> FALSE, drawn |-> FALSE, fwd |-> FALSE,
         out |-> TRUE, ret |-> ENOMEM]
    ELSE IF opRet # 0 THEN
        [got |-> TRUE, alloc |-> TRUE, drawn |-> TRUE, fwd |-> FALSE,
         out |-> TRUE, ret |-> opRet]
    ELSE
        [got |-> TRUE, alloc |-> TRUE, drawn |-> TRUE, fwd |-> TRUE,
         out |-> TRUE, ret |-> fwdRet]

\* the output buffer without av_frame_copy_props: pts and sample aspect
\* ratio stay as av_frame_alloc leaves them
get_output_buffer_without_props(l, ref) ==
    NewFrame(2, l.out_w, l.out_h, 0, "0:1")

\* ff_get_video_buffer(output_link, output_link->w, output_link->h) followed
\* by av_frame_copy_props(output_buf, input_buf)
get_output_buffer(l, ref) ==
    NewFrame(2, l.out_w, l.out_h, ref.pts, ref.sar)

\* draw_frame building the logo and output descriptors only and passing on
\* the input descriptor the context already holds
draw_frame_keeping_input(fr, input_buf, logo_buf, output_buf) ==
    [input |-> tm.input,
     logo |-> copy_AVFrame_to_TM_Picture(fr[logo_buf], logo_buf).pic,
     output |-> copy_AVFrame_to_TM_Picture(fr[output_buf], output_buf).pic]

\* draw_frame, lines 93-95: the three descriptors stored in the context
draw_frame(fr, input_buf, logo_buf, output_buf) ==
    [input |-> copy_AVFrame_to_TM_Picture(fr[input_buf], input_buf).pic,
     logo |-> copy_AVFrame_to_TM_Picture(fr[logo_buf], logo_buf).pic,
     output |-> copy_AVFrame_to_TM_Picture(fr[output_buf], output_buf).pic]

\* label `out`: av_frame_free of output_buf, input_buf and logo_buf.  The
\* three are separate pointer variables, so freeing one leaves the others
\* as they are.
process_frame_cleanup(fr, output_buf, input_buf, logo_buf) ==
    av_frame_free(av_frame_free(av_frame_free(fr, output_buf, "rel_pf"),
                                input_buf, "rel_pf"),
                  logo_buf, "rel_pf")

\* a frame was released more than once, or released by process_frame after
\* it had been handed downstream: undefined behaviour
DoubleRelease(fr, dn) ==
    \/ \E i \in 1 .. Len(fr) : Released(fr[i]) > 1
    \/ \E k \in 1 .. Len(dn) : fr[dn[k].frame].rel_pf > 0

\* one synchronization event: the synchronizer advances to the next aligned
\* pair and calls fs.on_event, i.e. process_frame
sync_event ==
    /\ pc = "Ready"
    /\ ~crashed
    /\ on_event = "process_frame"
    /\ framesync_event_ready(fs_queue, fs_eof)
    /\ \E g0 \in GetRets, g1 \in GetRets, allocOK \in BOOLEAN,
          opRet \in OpRets, fwdRet \in FwdRets, abort \in BOOLEAN :
          /\ allocOK => Len(frames) < MaxFrames
          /\ LET adv == framesync_advance(frames, fs_frame, fs_queue)
                 p == process_frame_path(g0, g1, allocOK, opRet, fwdRet)
                 input_buf == IF p.got
                              THEN ff_framesync_get_frame(adv.fs_frame, InputStreamArg, g0)
                              ELSE 0
                 logo_buf == IF p.got
                             THEN ff_framesync_get_frame(adv.fs_frame, LogoStreamArg, g1)
                             ELSE 0
                 output_buf == IF p.alloc THEN Len(frames) + 1 ELSE 0
                 fr1 == IF p.alloc
                        THEN Append(adv.frames,
                                    get_output_buffer(links, adv.frames[input_buf]))
                        ELSE adv.frames
                 pics == IF p.drawn
                         THEN draw_frame(fr1, input_buf, logo_buf, output_buf)
                         ELSE tm
                 fr2 == IF p.drawn
                        THEN [fr1 EXCEPT ![output_buf].drawn = TRUE,
                                         ![output_buf].op_status = opRet]
                        ELSE fr1
                 dn == IF p.fwd
                       THEN Append(downstream, [frame |-> output_buf, ret |-> fwdRet])
                       ELSE downstream
                 fr3 == IF p.out
                        THEN process_frame_cleanup(fr2, output_buf, input_buf, logo_buf)
                        ELSE fr2
             IN  /\ abort => DoubleRelease(fr3, dn)
                 /\ frames' = fr3
                 /\ fs_frame' = adv.fs_frame
                 /\ fs_queue' = adv.fs_queue
                 /\ tm' = pics
                 /\ downstream' = dn
                 /\ crashed' = abort
                 /\ last' = [handled |-> TRUE,
                             in0 |-> adv.fs_frame[0], in1 |-> adv.fs_frame[1],
                             input_buf |-> input_buf, logo_buf |-> logo_buf,
                             output_buf |-> output_buf,
                             got |-> p.got, alloc |-> p.alloc, drawn |-> p.drawn,
                             fwd |-> p.fwd, out |-> p.out, ret |-> p.ret,
                             ncalls |-> IF p.drawn THEN 1 ELSE 0,
                             call_func |-> IF p.drawn THEN func ELSE "NULL",
                             call_x |-> IF p.drawn THEN offset_x ELSE 0,
                             call_y |-> IF p.drawn THEN offset_y ELSE 0,
                             call_input |-> IF p.drawn THEN pics.input ELSE NullPic,
                             call_logo |-> IF p.drawn THEN pics.logo ELSE NullPic,
                             call_output |-> IF p.drawn THEN pics.output ELSE NullPic]
    /\ UNCHANGED <<pc, func_type, offset_x, offset_y, func, on_event,
                   fs_configured, fs_cfg_ret, init_ret, links, fs_eof, queue_input,
                   queue_logo, uninit_count, snap, bridgevars>>

---------------------------------------------------------------------------
(* Teardown *)

\* what a teardown leaves behind, compared across repeated calls
TeardownState(fr, qi, ql) ==
    <<fr, qi, ql, fs_queue, fs_frame, func, on_event, tm>>

\* uninit that also clears the bound operation
uninit_clearing_func ==
    /\ ~crashed
    /\ uninit_count < MaxUninit
    /\ LET fr == DiscardAll(DiscardAll(frames, queue_input), queue_logo)
       IN  /\ frames' = fr
           /\ queue_input' = <<>>
           /\ queue_logo' = <<>>
           /\ snap' = IF uninit_count = 0
                      THEN TeardownState(fr, <<>>, <<>>)
                      ELSE snap
    /\ uninit_count' = uninit_count + 1
    /\ pc' = "Uninit"
    /\ func' = "NULL"
    /\ UNCHANGED <<func_type, offset_x, offset_y, on_event, fs_configured,
                   fs_cfg_ret, init_ret, links, fs_queue, fs_frame, fs_eof,
                   tm, downstream, last, crashed, bridgevars>>

\* uninit: ff_bufqueue_discard_all on queue_input and on queue_logo
uninit ==
    /\ ~crashed
    /\ uninit_count < MaxUninit
    /\ LET fr == DiscardAll(DiscardAll(frames, queue_input), queue_logo)
       IN  /\ frames' = fr
           /\ queue_input' = <<>>
           /\ queue_logo' = <<>>
           /\ snap' = IF uninit_count = 0
                      THEN TeardownState(fr, <<>>, <<>>)
                      ELSE snap
    /\ uninit_count' = uninit_count + 1
    /\ pc' = "Uninit"
    /\ UNCHANGED <<func_type, offset_x, offset_y, func, on_event,
                   fs_configured, fs_cfg_ret, init_ret, links, fs_queue, fs_frame, fs_eof,
                   tm, downstream, last, crashed, bridgevars>>

---------------------------------------------------------------------------
(* Specification of the filter *)

NullFrame == NewFrame(0, 0, 0, 0, "0:1")

InitBridgeIdle ==
    /\ b_frame = NullFrame
    /\ b_pic = NullPic
    /\ b_done = FALSE

InitFilter(fts, offs, geos) ==
    /\ pc = "Idle"
    /\ func_type \in fts
    /\ \E o \in offs : offset_x = o[1] /\ offset_y = o[2]
    /\ func = "NULL"
    /\ on_event = "NULL"
    /\ fs_configured = FALSE
    /\ fs_cfg_ret = 0
    /\ init_ret = 0
    /\ links \in geos
    /\ frames = <<>>
    /\ fs_queue = [i \in Streams |-> <<>>]
    /\ fs_frame = [i \in Streams |-> 0]
    /\ fs_eof = FALSE
    /\ queue_input = <<>>
    /\ queue_logo = <<>>
    /\ tm = [input |-> NullPic, logo |-> NullPic, output |-> NullPic]
    /\ downstream = <<>>
    /\ last = NoEvent
    /\ crashed = FALSE
    /\ uninit_count = 0
    /\ snap = <<>>

Init ==
    /\ InitFilter(FuncTypes, OffsetPairs, LinkGeometries)
    /\ InitBridgeIdle

Next ==
    \/ init
    \/ config_output
    \/ push(0)
    \/ push(1)
    \/ end_of_stream
    \/ sync_event
    \/ uninit

Spec == Init /\ [][Next]_vars

---------------------------------------------------------------------------
(* Specification of the picture bridge alone *)

BridgeFormats ==
    {AV_PIX_FMT_RGBA, AV_PIX_FMT_RGB24, AV_PIX_FMT_YUV420P, AV_PIX_FMT_NONE}

BridgeFrames ==
    {[NullFrame EXCEPT !.format = f, !.width = w, !.height = h,
                       !.linesize = w * BytesPerPixel(f), !.stream = st] :
        f \in BridgeFormats, w \in 1 .. MaxBridgeDim, h \in 1 .. MaxBridgeDim,
        st \in Streams}

InitBridge ==
    /\ InitFilter({FUNC_EMBED}, {<<0, 0>>},
                  {[in_w |-> 4, in_h |-> 4, logo_w |-> 2, logo_h |-> 2,
                    out_w |-> 0, out_h |-> 0]})
    /\ b_frame \in BridgeFrames
    /\ b_pic = NullPic
    /\ b_done = FALSE

\* one call copy_AVFrame_to_TM_Picture(&pic, frame); the frame is only read
bridge_convert ==
    /\ ~b_done
    /\ b_pic' = copy_AVFrame_to_TM_Picture(b_frame, 1).pic
    /\ b_done' = TRUE
    /\ b_frame' = b_frame
    /\ UNCHANGED mainvars

NextBridge == bridge_convert

SpecBridge == InitBridge /\ [][NextBridge]_vars

---------------------------------------------------------------------------
(* Properties *)

InDownstream(id) ==
    \E k \in 1 .. Len(downstream) : downstream[k].frame = id

\* 1 if the synchronizer still holds the frame and so has yet to release it
PendingSyncRelease(id) ==
    IF HeldBySync(id) THEN 1 ELSE 0

\* C1: after process_frame has handled an event, on whatever exit path, the
\* input-stream frame and the logo-stream frame of the event are each
\* released exactly once in total, counting the releases done by
\* process_frame, those done by the synchronizer, and the one the
\* synchronizer still owes for a frame it holds.
C1_EventFramesReleasedExactlyOnce ==
    last.handled =>
        \A id \in {last.in0, last.in1} :
            frames[id].rel_pf + frames[id].rel_fs + PendingSyncRelease(id) = 1

\* C2: whenever the bound operation is invoked, the input descriptor is
\* built from the event's stream-0 frame and tagged RGB, and the logo
\* descriptor is built from the event's stream-1 frame and tagged RGBA.
C2_DescriptorsComeFromTheirStreams ==
    last.drawn =>
        /\ last.call_input.ptr = last.in0
        /\ frames[last.call_input.ptr].stream = 0
        /\ last.call_input.mode = TM_RGB
        /\ last.call_logo.ptr = last.in1
        /\ frames[last.call_logo.ptr].stream = 1
        /\ last.call_logo.mode = TM_RGBA

\* C3: an output frame that was forwarded downstream successfully is never
\* released by process_frame.
C3_ForwardedFrameNotReleasedByController ==
    \A k \in 1 .. Len(downstream) :
        downstream[k].ret = 0 => frames[downstream[k].frame].rel_pf = 0

\* C4: an output frame on which the operation returned a non-zero status is
\* released (once) and never passed downstream, and every frame passed
\* downstream is one on which the operation returned 0.
C4_FailedOperationOutputNeverForwarded ==
    /\ \A id \in FrameIds :
          (frames[id].drawn /\ frames[id].op_status # 0) =>
              /\ Released(frames[id]) = 1
              /\ ~InDownstream(id)
    /\ \A k \in 1 .. Len(downstream) :
          /\ frames[downstream[k].frame].drawn
          /\ frames[downstream[k].frame].op_status = 0

\* C4 witness: the latest event ran the operation, which returned non-zero.
C4_OperationFailedInEvent ==
    /\ last.handled
    /\ last.drawn
    /\ frames[last.output_buf].op_status # 0
    /\ Released(frames[last.output_buf]) = 1

\* C5: once uninit has run, every frame still pending in the input queue or
\* in the logo queue of the synchronizer has been released.
C5_TeardownReleasesPendingFrames ==
    uninit_count > 0 =>
        \A i \in Streams : \A k \in 1 .. Len(fs_queue[i]) :
            Released(frames[fs_queue[i][k]]) >= 1

\* C6: after two uninit calls in sequence the state is the one the first
\* call left, no frame was released twice by teardown, and no frame that
\* was pushed and not consumed remains unreleased.
C6_TeardownIdempotent ==
    uninit_count = 2 =>
        /\ TeardownState(frames, queue_input, queue_logo) = snap
        /\ \A id \in FrameIds : frames[id].rel_q <= 1
        /\ \A id \in FrameIds : HeldBySync(id) => Released(frames[id]) >= 1

\* C7: if init ran with a selector that is none of embed, pre-process,
\* post-process, the host saw an initialization failure, the pipeline is
\* Terminated, no operation is bound, the synchronizer is not configured and
\* no synchronization event has been processed.
C7_UnknownSelectorFailsInit ==
    (pc # "Idle" /\ uninit_count = 0
        /\ func_type \notin {FUNC_EMBED, FUNC_PRE, FUNC_POST}) =>
        /\ HostFailed(init_ret)
        /\ pc = "Terminated"
        /\ func = "NULL"
        /\ ~fs_configured
        /\ ~last.handled

\* C8: every output frame allocated in an event has the width and height of
\* the input stream (the input link's, and the event's stream-0 frame's).
C8_OutputGeometryIsInputGeometry ==
    /\ \A id \in FrameIds :
          frames[id].stream = 2 =>
              /\ frames[id].width = links.in_w
              /\ frames[id].height = links.in_h
    /\ last.alloc =>
          /\ frames[last.output_buf].width = frames[last.in0].width
          /\ frames[last.output_buf].height = frames[last.in0].height

\* C8 witness: an output frame was allocated while the logo stream's width
\* and height both differ from the input stream's and the offsets are not 0.
C8_OutputAllocatedWithDifferentLogoGeometry ==
    /\ last.alloc
    /\ links.logo_w # links.in_w
    /\ links.logo_h # links.in_h
    /\ frames[last.in1].width # frames[last.in0].width
    /\ offset_x # 0
    /\ offset_y # 0

\* C9: the picture bridge gives an RGBA frame the RGBA tag, an RGB24 frame
\* the RGB tag, and for a frame of any other layout it fails (its layout
\* check fires) instead of producing a descriptor.
C9_BridgeMapsLayoutOrFails ==
    b_done =>
        /\ b_frame.format = AV_PIX_FMT_RGBA => b_pic.mode = TM_RGBA
        /\ b_frame.format = AV_PIX_FMT_RGB24 => b_pic.mode = TM_RGB
        /\ b_frame.format \notin {AV_PIX_FMT_RGBA, AV_PIX_FMT_RGB24} =>
              b_pic.mode = TM_NONE

\* C10: if allocating the output frame failed in the latest event, the
\* operation was not invoked, nothing was forwarded, the event's input frame
\* and logo frame have been released, and process_frame returned ENOMEM.
C10_AllocationFailureAbandonsEvent ==
    (last.handled /\ last.got /\ ~last.alloc) =>
        /\ last.ncalls = 0
        /\ ~last.fwd
        /\ Released(frames[last.in0]) >= 1
        /\ Released(frames[last.in1]) >= 1
        /\ last.ret = ENOMEM


\* C11: once the synchronizer has signalled end of stream it stays
\* signalled and process_frame is not invoked again (the record of the
\* latest invocation and the synchronizer's current pair never change),
\* whatever is pushed afterwards.
C11_EndOfStreamIsTerminal ==
    [][fs_eof => (fs_eof' /\ last' = last /\ fs_frame' = fs_frame)]_vars

\* C11 witness: end of stream has been signalled while process_frame is
\* bound and both pending queues hold a frame.
C11_FramesPendingAfterEndOfStream ==
    /\ fs_eof
    /\ pc = "Ready"
    /\ on_event = "process_frame"
    /\ fs_queue[0] # <<>>
    /\ fs_queue[1] # <<>>

\* init has returned to the host
InitReturned == pc \in {"Inited", "Ready", "Terminated"}

\* C12: once init has run with one of the selectors embed, pre-process,
\* post-process, the operation bound is the selector's own (embed -> TM_embed,
\* pre -> TM_pre, post -> TM_post: three different operations, one per
\* instance), init returned what the synchronizer configuration returned, and
\* if that was success the host did not terminate the pipeline.
C12_EachSelectorBindsItsOperation ==
    (InitReturned /\ func_type \in {FUNC_EMBED, FUNC_PRE, FUNC_POST}) =>
        /\ func_type = FUNC_EMBED => func = "TM_embed"
        /\ func_type = FUNC_PRE => func = "TM_pre"
        /\ func_type = FUNC_POST => func = "TM_post"
        /\ on_event = "process_frame"
        /\ fs_configured
        /\ init_ret = fs_cfg_ret
        /\ fs_cfg_ret = 0 => (init_ret = 0 /\ pc # "Terminated")

\* C12 witness: init succeeded for the post-process selector and the
\* operation bound there has been invoked in an event.
C12_PostSelectorBoundAndDispatched ==
    /\ func_type = FUNC_POST
    /\ pc = "Ready"
    /\ init_ret = 0
    /\ func = "TM_post"
    /\ last.ncalls = 1
    /\ last.call_func = "TM_post"

\* the descriptor the claim of C13 expects for a frame: its width, height,
\* stride and plane pointer
ViewOf(id) ==
    [width |-> frames[id].width, height |-> frames[id].height,
     linesize |-> frames[id].linesize, ptr |-> id]

\* what a descriptor says about width, height, stride and plane pointer
ViewIn(pic) ==
    [width |-> pic.width, height |-> pic.height, linesize |-> pic.linesize,
     ptr |-> pic.ptr]

\* C13: in an event where output allocation succeeded the operation was
\* invoked exactly once, with the configured offsets and with descriptors
\* whose width, height, stride and plane pointer are those of the event's
\* input frame, logo frame and new output frame; in an event where
\* allocation failed it was not invoked.
C13_OperationInvokedOnceOnEventFrames ==
    /\ (last.handled /\ last.alloc) =>
          /\ last.ncalls = 1
          /\ last.call_x = offset_x
          /\ last.call_y = offset_y
          /\ ViewIn(last.call_input) = ViewOf(last.in0)
          /\ ViewIn(last.call_logo) = ViewOf(last.in1)
          /\ ViewIn(last.call_output) = ViewOf(last.output_buf)
    /\ (last.handled /\ last.got /\ ~last.alloc) => last.ncalls = 0

\* C14: the output frame of every event carries the presentation timestamp
\* and the sample aspect ratio of the event's stream-0 input frame; they are
\* on the frame as soon as it is allocated, so also on a frame the operation
\* then rejects, and on every frame passed downstream.
C14_OutputCarriesInputTimestampAndSar ==
    /\ last.alloc =>
          /\ frames[last.output_buf].pts = frames[last.in0].pts
          /\ frames[last.output_buf].sar = frames[last.in0].sar
    /\ \A k \in 1 .. Len(downstream) :
          /\ frames[downstream[k].frame].sar = SourceSar(0)
          /\ \E id \in FrameIds :
                /\ frames[id].stream = 0
                /\ frames[id].pts = frames[downstream[k].frame].pts

\* C14 witness: an output frame was forwarded in an event whose logo frame
\* has another timestamp and another sample aspect ratio than the input.
C14_ForwardedWithDifferentLogoProps ==
    /\ last.fwd
    /\ InDownstream(last.output_buf)
    /\ frames[last.in1].pts # frames[last.in0].pts
    /\ frames[last.in1].sar # frames[last.in0].sar
    /\ frames[last.output_buf].pts # frames[last.in1].pts
    /\ frames[last.output_buf].sar # frames[last.in1].sar

\* the descriptors the pipeline state holds
StoredDescriptors == {tm.input, tm.logo, tm.output}

InitSucceeded == fs_configured /\ init_ret = 0

\* C16: once init has succeeded, no step (an event on any of its paths, a
\* teardown, a push, end of stream) changes the selector, the bound
\* operation or the offsets, and the operation invoked in an event is the
\* bound one.
C16_ConfigurationUnchangedAfterInit ==
    [][InitSucceeded =>
          /\ func_type' = func_type
          /\ func' = func
          /\ offset_x' = offset_x
          /\ offset_y' = offset_y
          /\ last'.drawn => last'.call_func = func]_vars

\* C16 witness: init succeeded, an event has invoked the operation with
\* non-zero offsets, and teardown has run.
C16_EventAndTeardownAfterInit ==
    /\ InitSucceeded
    /\ last.drawn
    /\ last.call_func = func
    /\ func # "NULL"
    /\ offset_x # 0
    /\ uninit_count > 0

\* number of times the latest event's output was passed downstream
ForwardsOfLastOutput ==
    Cardinality({k \in 1 .. Len(downstream) :
                    downstream[k].frame = last.output_buf})

\* the latest event's output was passed downstream and accepted
LastOutputForwardedOk ==
    /\ last.fwd
    /\ \E k \in 1 .. Len(downstream) :
          /\ downstream[k].frame = last.output_buf
          /\ downstream[k].ret = 0

\* C17: process_frame returned 0 exactly when the event's output frame was
\* forwarded successfully; a failure to obtain a frame, an allocation
\* failure, a non-zero operation status and a forwarding failure each gave a
\* non-zero result in that call, no step was done twice, and after a failure
\* to obtain a frame nothing was allocated, invoked or forwarded.
C17_ZeroIffForwarded ==
    last.handled =>
        /\ last.ret = 0 <=> LastOutputForwardedOk
        /\ ~last.got =>
              /\ last.ret # 0
              /\ last.output_buf = 0
              /\ ~last.alloc
              /\ last.ncalls = 0
              /\ ~last.fwd
        /\ (last.got /\ ~last.alloc) => last.ret # 0
        /\ (last.drawn /\ frames[last.output_buf].op_status # 0) =>
              (last.ret # 0 /\ ~last.fwd)
        /\ last.ncalls <= 1
        /\ ForwardsOfLastOutput <= 1
        /\ last.fwd => ForwardsOfLastOutput = 1

\* C17 witness: the latest call failed to obtain a frame from the
\* synchronizer and returned the error.
C17_FrameNotObtained ==
    /\ last.handled
    /\ ~last.got
    /\ last.ret = ENOMEM
    /\ Len(downstream) > 0

===========================================================================
